---- MODULE Spec2Model ----
(***************************************************************************)
(* Model of the similarity retrieval functions of testcode.py:            *)
(* get_top_matches, get_top_matches_numpy and get_top_matches_batch        *)
(* (specification Spec), and of the chat, chat-history and clear-history   *)
(* handlers of AIMentalWellbeingChatbot/main.py with the intent detection  *)
(* of chatbot.py (specification SpecChat).                                 *)
(*                                                                         *)
(* Python values are modelled as follows.                                  *)
(*  - An embedding vector is a tuple of integers.                          *)
(*  - A similarity score is the exact rational sgn(c) * c^2 of the cosine  *)
(*    c, kept as a reduced fraction num/den (den > 0), or NaN.  The map    *)
(*    c |-> sgn(c) * c^2 is strictly increasing on [-1, 1], so order and   *)
(*    ties of scores are those of the cosines in exact arithmetic.         *)
(*  - Array positions are zero-based as in Python; At(a, i) reads a[i].    *)
(*  - text_embeddings carries the Python type of its container and items   *)
(*    in the field shape:                                                  *)
(*      "ndarray" a 2-D numpy array, "lists" a list of lists of numbers,   *)
(*      "tuples" a list of tuples of numbers, "pairs" a list of            *)
(*      (label, vector) tuples.                                            *)
(*  - A call returns [status |-> "ok", type |-> t, value |-> v], where t    *)
(*    is the Python type of v, or raises, [status |-> "raise", error |-> e]. *)
(*  - numpy's default argsort (kind = 'quicksort') and argpartition        *)
(*    (introselect) leave the relative order of equal keys unspecified:    *)
(*    they are modelled as the set of all permutations that satisfy their  *)
(*    documented postcondition.                                            *)
(***************************************************************************)
EXTENDS Integers, Sequences, FiniteSets, TLC

\* Bounds of the input space.
MaxN == 3
MaxQ == 2
MaxNegTopN == 2
MaxTopN == 4

\* The most exchanges the chat handler stores after the initial state.
MaxChats == 1

\* "Keep only last 100 messages per user"
HistoryLimit == 100

\* limit: int = 50
DefaultLimit == 50

VARIABLES queries, text_embeddings, top_n, call, result, pc

\* chat_sessions: the dictionary of main.py, user -> list of entries.
\* exchanges: per user, every exchange since the user's last clear whose
\*   response was generated, with whether the request then returned it.
\* now: the clock the timestamps are read from.
\* last: the last request handled and the response it got.
VARIABLES chat_sessions, exchanges, now, last

topkvars == <<queries, text_embeddings, top_n, call, result, pc>>

chatvars == <<chat_sessions, exchanges, now, last>>

vars == <<queries, text_embeddings, top_n, call, result, pc,
          chat_sessions, exchanges, now, last>>

(***************************************************************************)
(* Inputs                                                                  *)
(***************************************************************************)
Vectors == {<<0, 0>>, <<1, 0>>, <<0, 1>>, <<1, 1>>}

QueryStrings == {"east", "diag", "void"}

Shapes == {"ndarray", "lists", "tuples", "pairs"}

\* The label paired with the candidate at zero-based position i.
LabelAt(i) == <<"sad", "happy", "okay", "calm", "tired">>[i + 1]

\* The ambient embedding provider: a fixed function of the query string.
embed_query(q) ==
    CASE q = "east" -> <<1, 0>>
      [] q = "diag" -> <<1, 1>>
      [] OTHER      -> <<0, 0>>

SeqsUpTo(S, n) == UNION {[1..m -> S] : m \in 0..n}

\* A candidate collection of the given shape over the given vectors.
MakeEmbeddings(shape, vecs) ==
    [shape |-> shape,
     items |-> IF shape = "pairs"
               THEN [i \in 1..Len(vecs) |-> <<LabelAt(i - 1), vecs[i]>>]
               ELSE vecs]

(***************************************************************************)
(* Python and numpy primitives                                             *)
(***************************************************************************)
At(a, i) == a[i + 1]

Range0(n) == 0..(n - 1)

Abs(x) == IF x < 0 THEN -x ELSE x

Min(a, b) == IF a <= b THEN a ELSE b

Max(a, b) == IF a >= b THEN a ELSE b

RECURSIVE Gcd(_, _)
Gcd(a, b) == IF b = 0 THEN a ELSE Gcd(b, a % b)

RECURSIVE DotFrom(_, _, _)
DotFrom(u, v, i) ==
    IF i > Len(u) THEN 0 ELSE u[i] * v[i] + DotFrom(u, v, i + 1)

\* np.dot of two vectors.
Dot(u, v) == DotFrom(u, v, 1)

\* The square of np.linalg.norm(v).
NormSq(v) == Dot(v, v)

NaN == [nan |-> TRUE, num |-> 0, den |-> 1]

Frac(n, d) ==
    LET g == Gcd(Abs(n), d)
    IN  [nan |-> FALSE, num |-> n \div g, den |-> d \div g]

IsNaN(s) == s.nan

\* IEEE comparison of two scores: false whenever either side is NaN.
FloatGeq(a, b) == ~a.nan /\ ~b.nan /\ a.num * b.den >= b.num * a.den

\* The order numpy sorts floats by: NaN after every number.
SortLess(a, b) ==
    IF a.nan THEN FALSE
    ELSE IF b.nan THEN TRUE
    ELSE a.num * b.den < b.num * a.den

\* The cosine of two vectors of non-zero norm.
Cosine(q, c) ==
    LET d == Dot(q, c)
    IN  Frac((IF d < 0 THEN -1 ELSE 1) * d * d, NormSq(q) * NormSq(c))

\* One entry of sklearn's cosine_similarity: rows are normalised with a
\* zero norm replaced by 1, so a zero row scores 0 against everything.
SklearnCosine(q, c) ==
    IF NormSq(q) = 0 \/ NormSq(c) = 0 THEN Frac(0, 1) ELSE Cosine(q, c)

\* One entry of np.dot(embeddings / norms, query / norm(query)): dividing a
\* zero vector by its zero norm gives NaN components (a warning, no error),
\* and NaN propagates through the dot product.
NumpyCosine(q, c) ==
    IF NormSq(q) = 0 \/ NormSq(c) = 0 THEN NaN ELSE Cosine(q, c)

\* All orderings of the positions 0..n-1.
Permutations0(n) ==
    {p \in [1..n -> Range0(n)] : \A i, j \in 1..n : i # j => p[i] # p[j]}

\* np.argsort(a): every index order that lists a in ascending sort order.
ArgSort(a) ==
    {p \in Permutations0(Len(a)) :
        \A i, j \in 1..Len(a) : i < j => ~SortLess(At(a, p[j]), At(a, p[i]))}

\* a[::-1]
Reversed(a) == [i \in 1..Len(a) |-> a[Len(a) + 1 - i]]

\* a[start:] with Python's treatment of negative and oversized starts.
SliceFrom(a, start) ==
    LET lo == IF start < 0 THEN Max(Len(a) + start, 0) ELSE Min(start, Len(a))
    IN  SubSeq(a, lo + 1, Len(a))

\* a[idx] for an index array idx (fancy indexing).
Take(a, idx) == [i \in 1..Len(idx) |-> At(a, idx[i])]

\* The position argpartition pivots on, after numpy's kth += n for kth < 0.
NormalizedKth(n, kth) == IF kth < 0 THEN kth + n ELSE kth

\* np.argpartition raises ValueError when kth is out of bounds.
ArgPartitionRaises(a, kth) ==
    LET k == NormalizedKth(Len(a), kth) IN k < 0 \/ k >= Len(a)

\* np.argpartition(a, kth): every index order with the kth smallest element
\* in place, nothing larger before it and nothing smaller after it.
ArgPartition(a, kth) ==
    LET k == NormalizedKth(Len(a), kth)
    IN  {p \in Permutations0(Len(a)) :
            /\ \A i \in 1..k : ~SortLess(At(a, p[k + 1]), At(a, p[i]))
            /\ \A j \in (k + 2)..Len(a) : ~SortLess(At(a, p[j]), At(a, p[k + 1]))}

(***************************************************************************)
(* Shared building blocks of the three entry points                        *)
(***************************************************************************)
\* A returned list of matches.
Ok(v) == [status |-> "ok", error |-> "", type |-> "list", value |-> v]

\* A returned dictionary from query string to list of matches.
OkDict(d) == [status |-> "ok", error |-> "", type |-> "dict", value |-> d]

Raise(e) == [status |-> "raise", error |-> e, type |-> "none", value |-> <<>>]

\* Python values that may end up in the 'text' field of a match.
PyStr(s) == [type |-> "str", s |-> s, n |-> 0]

PyNum(n) == [type |-> "num", s |-> "", n |-> n]

\* The array numpy / sklearn see when handed the collection itself: a list
\* of (label, vector) tuples is ragged and converts to no numeric array.
AsArray(te) ==
    [numeric |-> te.shape # "pairs", ndim |-> 2, rows |-> te.items]

\* sklearn's check_array (inside cosine_similarity) raises ValueError for a
\* non-numeric array, an array that is not 2-D and an array with no rows.
CheckArrayRaises(m) == ~m.numeric \/ m.ndim # 2 \/ Len(m.rows) = 0

\* isinstance(text_embeddings[0], (list, tuple)) and len(text_embeddings[0]) == 2
LooksLikePairs(te) ==
    /\ te.shape \in {"lists", "tuples", "pairs"}
    /\ Len(At(te.items, 0)) = 2

\* np.array([item[1] for item in text_embeddings]) when the items look like
\* pairs, the collection itself otherwise.  Items that are themselves
\* 2-component vectors yield a 1-D array of their second components.
embeddings_matrix(te) ==
    IF LooksLikePairs(te)
    THEN [numeric |-> TRUE,
          ndim |-> IF te.shape = "pairs" THEN 2 ELSE 1,
          rows |-> [i \in 1..Len(te.items) |-> te.items[i][2]]]
    ELSE AsArray(te)

\* [item[0] for item in text_embeddings]; only used when LooksLikePairs.
texts(te) ==
    [i \in 1..Len(te.items) |->
        IF te.shape = "pairs" THEN PyStr(te.items[i][1])
        ELSE PyNum(te.items[i][1])]

\* kth = -top_n is out of bounds in the argpartition branch.
top_indices_raises(similarities, n) ==
    /\ ~(n >= Len(similarities))
    /\ ArgPartitionRaises(similarities, -n)

\* Lines 27-34 (repeated verbatim at 77-82 and 130-134): the index arrays
\* the selection can produce.
top_indices(similarities, n) ==
    IF n >= Len(similarities)
    THEN {Reversed(p) : p \in ArgSort(similarities)}
    ELSE UNION {
           LET top == SliceFrom(p, -n)
           IN  {Take(top, Reversed(r)) : r \in ArgSort(Take(similarities, top))}
           : p \in ArgPartition(similarities, -n)}

\* The match list built by get_top_matches_numpy and get_top_matches_batch.
build_matches(idxs, similarities, te) ==
    [k \in 1..Len(idxs) |->
        IF LooksLikePairs(te)
        THEN [index |-> idxs[k],
              similarity_score |-> At(similarities, idxs[k]),
              text |-> At(texts(te), idxs[k])]
        ELSE [index |-> idxs[k],
              similarity_score |-> At(similarities, idxs[k])]]

(***************************************************************************)
(* The entry points: each is the set of outcomes a call can have.          *)
(***************************************************************************)
get_top_matches(query, te, n) ==
    LET query_embedding == embed_query(query)
        Y == AsArray(te)
    IN  IF CheckArrayRaises(Y) THEN {Raise("ValueError")}
        ELSE
          LET similarities ==
                [i \in 1..Len(Y.rows) |-> SklearnCosine(query_embedding, Y.rows[i])]
          IN  IF top_indices_raises(similarities, n) THEN {Raise("ValueError")}
              ELSE
                {Ok([k \in 1..Len(idxs) |->
                      [index |-> idxs[k],
                       text |-> IF te.shape = "pairs"
                                THEN PyStr(At(te.items, idxs[k])[1])
                                ELSE IF te.shape = "tuples"
                                THEN PyNum(At(te.items, idxs[k])[1])
                                ELSE PyNum(idxs[k]),
                       similarity_score |-> At(similarities, idxs[k])]])
                 : idxs \in top_indices(similarities, n)}

get_top_matches_numpy(query, te, n) ==
    LET query_embedding == embed_query(query)
    IN  IF Len(te.items) = 0 THEN {Raise("IndexError")}
        ELSE
          LET M == embeddings_matrix(te)
          IN  IF M.ndim # 2 THEN {Raise("AxisError")}
              ELSE
                LET similarities ==
                      [i \in 1..Len(M.rows) |-> NumpyCosine(query_embedding, M.rows[i])]
                IN  IF top_indices_raises(similarities, n) THEN {Raise("ValueError")}
                    ELSE {Ok(build_matches(idxs, similarities, te))
                          : idxs \in top_indices(similarities, n)}

\* A Python dict is the sequence of its <<key, value>> items in insertion
\* order.
DictKeys(d) == {d[i][1] : i \in 1..Len(d)}

\* d[key], for a key of d.
DictGet(d, key) == d[CHOOSE i \in 1..Len(d) : d[i][1] = key][2]

\* d[key] = val: replaces the value of a key already present, in place,
\* and appends a new item otherwise.
DictSet(d, key, val) ==
    IF key \in DictKeys(d)
    THEN [i \in 1..Len(d) |-> IF d[i][1] = key THEN <<key, val>> ELSE d[i]]
    ELSE Append(d, <<key, val>>)

\* The loop of lines 126-146 from position i (one-based) on, started with
\* the dictionary results.
RECURSIVE batch_loop(_, _, _, _, _, _)
batch_loop(i, results, qs, similarities, te, n) ==
    IF i > Len(qs) THEN {OkDict(results)}
    ELSE
      LET query_similarities == similarities[i]
      IN  IF top_indices_raises(query_similarities, n) THEN {Raise("ValueError")}
          ELSE UNION {
                 batch_loop(i + 1,
                            DictSet(results, qs[i],
                                    build_matches(idxs, query_similarities, te)),
                            qs, similarities, te, n)
                 : idxs \in top_indices(query_similarities, n)}

get_top_matches_batch(qs, te, n) ==
    LET query_embeddings == [i \in 1..Len(qs) |-> embed_query(qs[i])]
    IN  IF Len(te.items) = 0 THEN {Raise("IndexError")}
        ELSE
          LET M == embeddings_matrix(te)
          IN  IF CheckArrayRaises(M) THEN {Raise("ValueError")}
              ELSE
                LET similarities ==
                      [i \in 1..Len(qs) |->
                        [j \in 1..Len(M.rows) |->
                          SklearnCosine(query_embeddings[i], M.rows[j])]]
                IN  batch_loop(1, <<>>, qs, similarities, te, n)

(***************************************************************************)
(* The chat service: main.py and chatbot.py                                *)
(***************************************************************************)
Users == {"ana", "ben"}

Messages == {"hello"}

Intents == {"emergency", "irrelevant", "qna"}

\* What the language model answers to the intent prompt: the call raises,
\* the text is no JSON, the JSON has no "intent" key, or it is an object
\* with an intent and with a confidence that is absent, a number or text.
ClassifierReplies ==
    {[kind |-> k, intent |-> "", confidence |-> "absent"]
       : k \in {"raise", "unparseable", "no_intent"}}
    \cup {[kind |-> "json", intent |-> i, confidence |-> "absent"]
            : i \in Intents}
    \cup {[kind |-> "json", intent |-> "qna", confidence |-> c]
            : c \in {"number", "text"}}

\* A confidence value: a float, or a value that converts to no float.
Confidence(numeric, value) == [numeric |-> numeric, value |-> value]

NoIntentData ==
    [has_intent |-> FALSE, intent |-> "", confidence |-> Confidence(FALSE, Frac(0, 1)),
     has_confidence |-> FALSE]

\* detect_intent without the fallback: the error of json.loads propagates.
detect_intent_no_fallback(reply) ==
    IF reply.kind \in {"raise", "unparseable"}
    THEN [status |-> "raise", data |-> NoIntentData]
    ELSE [status |-> "ok",
          data |-> [has_intent |-> reply.kind # "no_intent",
                    intent |-> reply.intent,
                    confidence |-> IF reply.confidence = "number"
                                   THEN Confidence(TRUE, Frac(9, 10))
                                   ELSE Confidence(FALSE, Frac(0, 1)),
                    has_confidence |-> reply.confidence # "absent"]]

\* WellnessChatbot.detect_intent: the parsed reply, or the fallback when
\* json.loads raises; chain.run raising propagates.
detect_intent(reply) ==
    IF reply.kind = "raise" THEN [status |-> "raise", data |-> NoIntentData]
    ELSE IF reply.kind = "unparseable"
    THEN [status |-> "ok",
          data |-> [has_intent |-> TRUE, intent |-> "qna",
                    confidence |-> Confidence(TRUE, Frac(1, 2)),
                    has_confidence |-> TRUE]]
    ELSE [status |-> "ok",
          data |-> [has_intent |-> reply.kind # "no_intent",
                    intent |-> reply.intent,
                    confidence |-> IF reply.confidence = "number"
                                   THEN Confidence(TRUE, Frac(9, 10))
                                   ELSE Confidence(FALSE, Frac(0, 1)),
                    has_confidence |-> reply.confidence # "absent"]]

\* WellnessChatbot.generate_response: the answer of the language model to
\* the prompt chosen by the intent; it is named after the prompt.
generate_response(user_message, intent, llm) ==
    IF llm = "raise" THEN [status |-> "raise", text |-> ""]
    ELSE [status |-> "ok",
          text |-> IF intent = "emergency" THEN "emergency_prompt"
                   ELSE IF intent = "irrelevant" THEN "irrelevant_prompt"
                   ELSE "wellness_prompt"]

\* ChatResponse(response=..., intent=..., confidence=...): pydantic raises
\* a ValidationError for a confidence that is no float.
ChatResponseRaises(confidence) == ~confidence.numeric

Entry(message, response, intent, timestamp) ==
    [message |-> message, response |-> response, intent |-> intent,
     timestamp |-> timestamp]

\* chat_sessions.get(user, [])
HistoryOf(sessions, user) ==
    IF user \in DictKeys(sessions) THEN DictGet(sessions, user) ELSE <<>>

\* The truncation with history[:HistoryLimit]: keeps the oldest entries.
keep_first(history) ==
    IF Len(history) > HistoryLimit
    THEN SubSeq(history, 1, HistoryLimit)
    ELSE history

\* history[-HistoryLimit:] when the history is longer than HistoryLimit.
keep_last(history) ==
    IF Len(history) > HistoryLimit
    THEN SliceFrom(history, -HistoryLimit)
    ELSE history

\* The response of a request; every field is present in every response.
Response(status, stage, text, intent, confidence, history) ==
    [status |-> status, stage |-> stage, response |-> text, intent |-> intent,
     confidence |-> confidence, history |-> history]

Failure(stage) == Response("error", stage, "", "", Frac(0, 1), <<>>)

\* The chat handler for one request: the session dictionary it leaves,
\* whether an entry was stored, and the response.
chat(sessions, user, message, reply, llm, timestamp) ==
    LET detected == detect_intent(reply)
        intent_data == detected.data
        intent == intent_data.intent
        confidence == IF intent_data.has_confidence
                      THEN intent_data.confidence
                      ELSE Confidence(TRUE, Frac(4, 5))
        generated == generate_response(message, intent, llm)
        entry == Entry(message, generated.text, intent, timestamp)
        stored == DictSet(sessions, user,
                          keep_last(Append(HistoryOf(sessions, user), entry)))
    IN  IF detected.status = "raise"
        THEN [sessions |-> sessions, stored |-> FALSE,
              response |-> Failure("detect_intent")]
        ELSE IF ~intent_data.has_intent
        THEN [sessions |-> sessions, stored |-> FALSE,
              response |-> Failure("intent_key")]
        ELSE IF generated.status = "raise"
        THEN [sessions |-> sessions, stored |-> FALSE,
              response |-> Failure("generate_response")]
        ELSE IF ChatResponseRaises(confidence)
        THEN [sessions |-> stored, stored |-> TRUE,
              response |-> Failure("ChatResponse")]
        ELSE [sessions |-> stored, stored |-> TRUE,
              response |-> Response("ok", "", generated.text, intent,
                                    confidence.value, <<>>)]

\* The chat-history handler reading chat_sessions[user]: the defaultdict
\* creates an empty history for a user who has none.
get_chat_history_indexing(sessions, user, limit) ==
    [sessions |-> IF user \in DictKeys(sessions)
                  THEN sessions
                  ELSE DictSet(sessions, user, <<>>),
     response |-> Response("ok", "", "", "", Frac(0, 1),
                           SliceFrom(HistoryOf(sessions, user), -limit))]

\* The chat-history handler: the session dictionary it leaves and the
\* response, history[-limit:].
get_chat_history(sessions, user, limit) ==
    [sessions |-> sessions,
     response |-> Response("ok", "", "", "", Frac(0, 1),
                           SliceFrom(HistoryOf(sessions, user), -limit))]

\* The clear-history handler.
clear_history(sessions, user) ==
    [sessions |-> IF user \in DictKeys(sessions)
                  THEN DictSet(sessions, user, <<>>)
                  ELSE sessions,
     response |-> Response("ok", "", "Chat history cleared", "", Frac(0, 1), <<>>)]

Request(op, user, message, reply, llm, limit) ==
    [op |-> op, user |-> user, message |-> message, reply |-> reply,
     llm |-> llm, limit |-> limit]

NoReply == [kind |-> "", intent |-> "", confidence |-> "absent"]

NoRequest ==
    [request |-> Request("none", "", "", NoReply, "", 0),
     response |-> Response("none", "", "", "", Frac(0, 1), <<>>)]

\* A history of n earlier exchanges, made at the times 1..n.
EarlierHistory(n) ==
    [i \in 1..n |-> Entry("hello", "wellness_prompt", "qna", i)]

(***************************************************************************)
(* The state machine: inputs are chosen, then one entry point is called.   *)
(***************************************************************************)
NoCall == [op |-> "none", query |-> ""]

NoResult == [status |-> "none", error |-> "", type |-> "none", value |-> <<>>]

Init ==
    /\ queries \in SeqsUpTo(QueryStrings, MaxQ) \ {<<>>}
    /\ \E shape \in Shapes, vecs \in SeqsUpTo(Vectors, MaxN) :
          text_embeddings = MakeEmbeddings(shape, vecs)
    /\ top_n \in (-MaxNegTopN)..MaxTopN
    /\ call = NoCall
    /\ result = NoResult
    /\ pc = "start"
    /\ chat_sessions = <<>>
    /\ exchanges = [u \in Users |-> <<>>]
    /\ now = 0
    /\ last = NoRequest

GetTopMatches ==
    /\ pc = "start"
    /\ \E i \in 1..Len(queries) :
         /\ result' \in get_top_matches(queries[i], text_embeddings, top_n)
         /\ call' = [op |-> "get_top_matches", query |-> queries[i]]
    /\ pc' = "done"
    /\ UNCHANGED <<queries, text_embeddings, top_n>>
    /\ UNCHANGED chatvars

GetTopMatchesNumpy ==
    /\ pc = "start"
    /\ \E i \in 1..Len(queries) :
         /\ result' \in get_top_matches_numpy(queries[i], text_embeddings, top_n)
         /\ call' = [op |-> "get_top_matches_numpy", query |-> queries[i]]
    /\ pc' = "done"
    /\ UNCHANGED <<queries, text_embeddings, top_n>>
    /\ UNCHANGED chatvars

GetTopMatchesBatch ==
    /\ pc = "start"
    /\ result' \in get_top_matches_batch(queries, text_embeddings, top_n)
    /\ call' = [op |-> "get_top_matches_batch", query |-> ""]
    /\ pc' = "done"
    /\ UNCHANGED <<queries, text_embeddings, top_n>>
    /\ UNCHANGED chatvars

Next == GetTopMatches \/ GetTopMatchesNumpy \/ GetTopMatchesBatch

Spec == Init /\ [][Next]_vars

(***************************************************************************)
(* The chat service as a state machine: requests of any users in any       *)
(* order, started from sessions in which a user has no history yet or has  *)
(* HistoryLimit - 1 or HistoryLimit earlier exchanges.                     *)
(***************************************************************************)
InitChat ==
    /\ queries = <<"east">>
    /\ text_embeddings = MakeEmbeddings("ndarray", <<>>)
    /\ top_n = 0
    /\ call = NoCall
    /\ result = NoResult
    /\ pc = "serving"
    /\ \E filled \in SUBSET Users :
         /\ chat_sessions \in
              {d \in [1..Cardinality(filled) ->
                        {<<u, EarlierHistory(n)>>
                           : u \in filled, n \in {HistoryLimit - 1, HistoryLimit}}] :
                  \A i, j \in 1..Len(d) : i # j => d[i][1] # d[j][1]}
         /\ exchanges =
              [u \in Users |->
                 [i \in 1..Len(HistoryOf(chat_sessions, u)) |->
                    [entry |-> HistoryOf(chat_sessions, u)[i], returned |-> TRUE]]]
    /\ now = HistoryLimit
    /\ last = NoRequest

Chat ==
    /\ pc = "serving"
    /\ \E user \in Users, message \in Messages,
          reply \in ClassifierReplies, llm \in {"ok", "raise"} :
         LET done == chat(chat_sessions, user, message, reply, llm, now)
             intent == detect_intent(reply).data.intent
             generated == /\ reply.kind \in {"unparseable", "json"}
                          /\ llm = "ok"
         IN  /\ (done.stored \/ generated) => now < HistoryLimit + MaxChats
             /\ chat_sessions' = done.sessions
             /\ now' = IF done.stored \/ generated THEN now + 1 ELSE now
             /\ exchanges' =
                  IF generated
                  THEN [exchanges EXCEPT ![user] =
                          Append(@, [entry |-> Entry(message,
                                                     generate_response(message, intent, llm).text,
                                                     intent, now),
                                     returned |-> done.response.status = "ok"])]
                  ELSE exchanges
             /\ last' = [request |-> Request("chat", user, message, reply, llm, 0),
                         response |-> done.response]
    /\ UNCHANGED topkvars

GetChatHistory ==
    /\ pc = "serving"
    /\ \E user \in Users, limit \in {0, DefaultLimit} :
         LET done == get_chat_history(chat_sessions, user, limit)
         IN  /\ chat_sessions' = done.sessions
             /\ last' = [request |-> Request("chat-history", user, "", NoReply, "", limit),
                         response |-> done.response]
    /\ UNCHANGED <<exchanges, now>>
    /\ UNCHANGED topkvars

ClearHistory ==
    /\ pc = "serving"
    /\ \E user \in Users :
         LET done == clear_history(chat_sessions, user)
         IN  /\ chat_sessions' = done.sessions
             /\ exchanges' = [exchanges EXCEPT ![user] = <<>>]
             /\ last' = [request |-> Request("clear-history", user, "", NoReply, "", 0),
                         response |-> done.response]
    /\ UNCHANGED now
    /\ UNCHANGED topkvars

NextChat == Chat \/ GetChatHistory \/ ClearHistory

SpecChat == InitChat /\ [][NextChat]_vars

(***************************************************************************)
(* Vocabulary of the properties                                            *)
(***************************************************************************)
Called(op) == pc = "done" /\ call.op = op

Finished == pc = "done"

Returned == pc = "done" /\ result.status = "ok"

\* N, the size of the candidate collection.
N == Len(text_embeddings.items)

\* The embedding vector of the candidate at zero-based position idx.
VectorAt(te, idx) ==
    IF te.shape = "pairs" THEN At(te.items, idx)[2] ELSE At(te.items, idx)

VectorsOf(te) == [i \in 1..Len(te.items) |-> VectorAt(te, i - 1)]

\* The match lists a returned result holds: the list itself, or the values
\* of the dictionary the batch call returns.
MatchLists(r) ==
    IF r.status # "ok" THEN {}
    ELSE IF call.op = "get_top_matches_batch"
    THEN {DictGet(r.value, q) : q \in DictKeys(r.value)}
    ELSE {r.value}

HasZeroNorm(v) == NormSq(v) = 0

\* C1: for K >= 0 the match list a single-query call returns has exactly
\* min(K, N) entries.
C1_LengthIsMinKN ==
    (/\ Returned
     /\ call.op \in {"get_top_matches", "get_top_matches_numpy"}
     /\ top_n >= 0)
    => Len(result.value) = Min(top_n, N)

\* C2: every match list returned for a K >= 1 is in descending score order,
\* and matches with exactly equal score are in ascending index order.
C2_DescendingStableOrder ==
    (/\ Returned
     /\ call.op \in {"get_top_matches", "get_top_matches_batch"}
     /\ top_n >= 1)
    => \A L \in MatchLists(result) :
         \A i, j \in 1..Len(L) :
           i < j =>
             \/ SortLess(L[j].similarity_score, L[i].similarity_score)
             \/ /\ L[i].similarity_score = L[j].similarity_score
                /\ L[i].index < L[j].index

\* C3: the match list the batch call reports for Q[i] is a match list the
\* single-query call returns for Q[i] with the same collection and K.
C3_BatchEqualsSingle ==
    (Returned /\ call.op = "get_top_matches_batch")
    => \A i \in 1..Len(queries) :
         /\ queries[i] \in DictKeys(result.value)
         /\ Ok(DictGet(result.value, queries[i]))
              \in get_top_matches(queries[i], text_embeddings, top_n)

\* C4: the batch result holds one match list per supplied query, also when
\* a query string occurs more than once.
C4_OneEntryPerQuery ==
    (Returned /\ call.op = "get_top_matches_batch")
    => Len(result.value) = Len(queries)

\* The score the called entry point computes for candidate vector c.
ScoreOf(c) ==
    IF call.op = "get_top_matches_numpy"
    THEN NumpyCosine(embed_query(call.query), c)
    ELSE SklearnCosine(embed_query(call.query), c)

\* The K returned indices are distinct and every returned score is >= the
\* score of every candidate that was not returned.
IsTopK(L) ==
    /\ Len(L) = top_n
    /\ \A i, j \in 1..Len(L) : i # j => L[i].index # L[j].index
    /\ \A i \in 1..Len(L) :
         \A idx \in Range0(N) \ {L[j].index : j \in 1..Len(L)} :
           FloatGeq(L[i].similarity_score,
                    ScoreOf(VectorAt(text_embeddings, idx)))

\* C5: for 0 < K < N the partition-then-sort path returns exactly the K
\* highest-scoring candidates.
C5_PartitionReturnsTopK ==
    (/\ Returned
     /\ call.op \in {"get_top_matches", "get_top_matches_numpy"}
     /\ 0 < top_n /\ top_n < N)
    => IsTopK(result.value)

\* C6: a request with negative K fails in every entry point and returns no
\* match list.  The code defines no InvalidTopKError, so any exception is
\* taken for it.
C6_NegativeKRaises ==
    (Finished /\ top_n < 0) => result.status = "raise"

\* C7: get_top_matches_numpy fails and returns no match list when the
\* query vector or a candidate vector has zero norm, and never returns a
\* match whose score is NaN.  The code defines no DegenerateVectorError, so
\* any exception is taken for it.
C7_ZeroNormRaises ==
    Called("get_top_matches_numpy")
    => /\ (\/ HasZeroNorm(embed_query(call.query))
           \/ \E i \in Range0(N) : HasZeroNorm(VectorAt(text_embeddings, i)))
          => result.status = "raise"
       /\ \A L \in MatchLists(result) :
            \A i \in 1..Len(L) : ~IsNaN(L[i].similarity_score)

\* C8: with an empty candidate collection every entry point returns an
\* empty match list (the batch call one for each query), whatever K is.
C8_EmptyCollectionGivesEmpty ==
    (Finished /\ N = 0)
    => /\ result.status = "ok"
       /\ IF call.op = "get_top_matches_batch"
          THEN \A i \in 1..Len(queries) :
                 /\ queries[i] \in DictKeys(result.value)
                 /\ DictGet(result.value, queries[i]) = <<>>
          ELSE result.value = <<>>

\* C9: every match list a request with K = 0 returns is empty, also when
\* N >= 1 and the partition path is taken.
C9_ZeroKGivesEmpty ==
    (Returned /\ top_n = 0) => \A L \in MatchLists(result) : L = <<>>

\* The outcomes of the call that was made, had the collection been te.
OutcomesOn(te) ==
    CASE call.op = "get_top_matches" ->
           get_top_matches(call.query, te, top_n)
      [] call.op = "get_top_matches_numpy" ->
           get_top_matches_numpy(call.query, te, top_n)
      [] OTHER -> get_top_matches_batch(queries, te, top_n)

StripList(L) ==
    [i \in 1..Len(L) |->
        [index |-> L[i].index, similarity_score |-> L[i].similarity_score]]

\* An outcome without its labels: indices, scores and order only.
Strip(op, r) ==
    IF r.status # "ok" THEN [status |-> r.status, value |-> <<>>]
    ELSE [status |-> "ok",
          value |-> IF op = "get_top_matches_batch"
                    THEN [i \in 1..Len(r.value) |->
                            <<r.value[i][1], StripList(r.value[i][2])>>]
                    ELSE StripList(r.value)]

\* C10: matches carry the paired label when the collection is made of
\* (label, vector) pairs and no label when it is a plain array; apart from
\* that, a call behaves the same on both shapes of the same vectors.
C10_LabelsOnlyDifference ==
    Finished =>
      /\ \A L \in MatchLists(result) :
           \A i \in 1..Len(L) :
             IF text_embeddings.shape = "pairs"
             THEN /\ "text" \in DOMAIN L[i]
                  /\ L[i].text = PyStr(LabelAt(L[i].index))
             ELSE \/ "text" \notin DOMAIN L[i]
                  \/ L[i].text = PyNum(L[i].index)
      /\ \A shape \in Shapes :
           Strip(call.op, result)
             \in {Strip(call.op, r)
                  : r \in OutcomesOn(MakeEmbeddings(shape,
                                       VectorsOf(text_embeddings)))}

\* The outcomes of the other single-query path on the inputs of the call
\* that was made.
OtherPathOutcomes ==
    IF call.op = "get_top_matches"
    THEN get_top_matches_numpy(call.query, text_embeddings, top_n)
    ELSE get_top_matches(call.query, text_embeddings, top_n)

\* C11: on the same query, collection and K, get_top_matches and
\* get_top_matches_numpy give the same ranked result: the same indices in
\* the same order with the same scores.
C11_PathsAgree ==
    (Finished /\ call.op \in {"get_top_matches", "get_top_matches_numpy"})
    => Strip(call.op, result)
         \in {Strip(call.op, r) : r \in OtherPathOutcomes}

(***************************************************************************)
(* Properties of the chat service (specification SpecChat)                 *)
(***************************************************************************)
\* The last n elements of a sequence, all of it when it is shorter.
LastN(seq, n) ==
    IF Len(seq) <= n THEN seq ELSE [i \in 1..n |-> seq[Len(seq) - n + i]]

EntriesOf(made) == [i \in 1..Len(made) |-> made[i].entry]

WasReturned(x) == x.returned

\* C12 as stated: each user's stored history has at most HistoryLimit
\* entries and is the user's most recent successful chat exchanges (those
\* whose request returned its response) since the last clear, in order.
C12_HistoryIsRecentSuccessful ==
    \A u \in Users :
      /\ Len(HistoryOf(chat_sessions, u)) <= HistoryLimit
      /\ HistoryOf(chat_sessions, u)
           = LastN(EntriesOf(SelectSeq(exchanges[u], WasReturned)), HistoryLimit)

\* C12 as amended: each user's stored history has at most HistoryLimit
\* entries and is the user's most recent chat exchanges since the last clear
\* for which a response was generated, in order, whether or not the request
\* then returned it.
C12_HistoryIsRecentGenerated ==
    \A u \in Users :
      /\ Len(HistoryOf(chat_sessions, u)) <= HistoryLimit
      /\ HistoryOf(chat_sessions, u)
           = LastN(EntriesOf(exchanges[u]), HistoryLimit)

\* A chat has pushed a user's exchanges since the last clear past
\* HistoryLimit, so the oldest one was dropped.
C12_Witness ==
    /\ last.request.op = "chat"
    /\ Len(exchanges[last.request.user]) > HistoryLimit
    /\ Len(HistoryOf(chat_sessions, last.request.user)) = HistoryLimit

\* C13: a chat or clear-history request changes the stored history of its
\* user only, clear-history leaves its user with an empty history, and a
\* chat-history request changes no history and creates no entry.
C13_OnlyOwnHistoryChanges ==
    [][LET r == last'.request
       IN  /\ \A u \in Users \ {r.user} :
                /\ (u \in DictKeys(chat_sessions')) = (u \in DictKeys(chat_sessions))
                /\ HistoryOf(chat_sessions', u) = HistoryOf(chat_sessions, u)
           /\ r.op = "clear-history" => HistoryOf(chat_sessions', r.user) = <<>>
           /\ r.op = "chat-history" => chat_sessions' = chat_sessions]_vars

\* A user with a stored history has just cleared it while another user
\* holds a history.
C13_Witness ==
    /\ last.request.op = "clear-history"
    /\ last.request.user \in DictKeys(chat_sessions)
    /\ HistoryOf(chat_sessions, last.request.user) = <<>>
    /\ \E u \in Users \ {last.request.user} :
         Len(HistoryOf(chat_sessions, u)) > 0

\* C14: a chat request whose intent detection raises, whose parsed reply
\* has no "intent" key or whose response generation raises fails and
\* changes no stored history; an unparseable classifier reply whose response
\* is then generated returns intent "qna" with confidence 0.5 and its
\* exchange is the newest entry of the user's history.
C14_EarlyFailureStoresNothing ==
    [][LET r == last'.request
           a == last'.response
       IN  r.op = "chat" =>
             /\ (\/ r.reply.kind \in {"raise", "no_intent"}
                 \/ r.llm = "raise")
                => a.status = "error" /\ chat_sessions' = chat_sessions
             /\ (r.reply.kind = "unparseable" /\ r.llm = "ok")
                => /\ a.status = "ok"
                   /\ a.intent = "qna"
                   /\ a.confidence = Frac(1, 2)
                   /\ LastN(HistoryOf(chat_sessions', r.user), 1)
                        = <<Entry(r.message, a.response, "qna", now)>>]_vars

\* A chat whose classifier reply was unparseable has been answered and
\* stored.
C14_Witness ==
    /\ last.request.op = "chat"
    /\ last.request.reply.kind = "unparseable"
    /\ last.response.status = "ok"
    /\ Len(HistoryOf(chat_sessions, last.request.user)) > 0

====
